---- MODULE Spec2Model ----
(***************************************************************************)
(* Model of the satoxid cardinality encoders (src/constraints/             *)
(* cardinality.rs) on top of the VarMap allocator and the direction-aware  *)
(* circuit builder, with the solver backend modelled as a decision         *)
(* procedure on the emitted clauses, and of the Encoder facade, Lit,       *)
(* VarType and Model of src/lib.rs.                                        *)
(*                                                                         *)
(* Spec is the encoder session: new_var, one constraint call, the          *)
(* composition of its repr, solve and the Model lookups.  SpecTwin runs    *)
(* the same calls on two encoders.  SpecLit applies the pure functions of  *)
(* Lit and VarType.  SpecDir encodes a constraint next to the same         *)
(* constraint built with Direction::Both.  SpecEnum runs the enumeration   *)
(* loop retry_until_unsat on the encoder of a session.                     *)
(*                                                                         *)
(* An encoder is the record [vm, cl]:                                      *)
(*   vm  the VarMap: vm[i] is the user variable that integer id i names,   *)
(*       or Anon when id i is an anonymous variable;                       *)
(*   cl  the backend's clause list, each clause a sequence of nonzero      *)
(*       signed integers.                                                  *)
(*                                                                         *)
(* State: varmap and backend are the fields of the Encoder; call is the    *)
(* last call made on it and pc where the session stands; solver is what    *)
(* the backend answered to solve() and model what Encoder::solve returned; *)
(* twin is a second encoder that receives the same calls; probe is the     *)
(* last lookup or pure function applied, or the locals of the              *)
(* enumeration loop retry_until_unsat.                                     *)
(***************************************************************************)
EXTENDS Integers, Sequences, FiniteSets, TLC

\* Bounds of the model.
MaxN == 3
MaxK == 3
MaxPre == 1
MaxSolve == 4
MaxEnum == 2
Width == 5

\* User variables are the integers 1..MaxN, as in the tests' Pos(i).
V == 1 .. MaxN
Anon == 0

InToOut == "InToOut"
OutToIn == "OutToIn"
Both == "Both"

None == 0

\* solve() was not called; no Model was returned.
NotSolved == [result |-> "none", value |-> <<>>, queried |-> <<>>]
NoModel == [some |-> FALSE, assignments |-> {}]

NoTwin == [vm |-> <<>>, cl |-> <<>>, ret |-> 0, panic |-> FALSE]
NoProbe == [op |-> "none"]

VARIABLES varmap, backend, call, pc, solver, model, twin, probe
vars == <<varmap, backend, call, pc, solver, model, twin, probe>>

----------------------------------------------------------------------------
\* Small helpers on sequences.

Range(s) == {s[i] : i \in DOMAIN s}

Last(s) == s[Len(s)]

Neg(c) == [i \in DOMAIN c |-> -c[i]]

RECURSIVE Flatten(_)
Flatten(ss) == IF ss = <<>> THEN <<>> ELSE Head(ss) \o Flatten(Tail(ss))

----------------------------------------------------------------------------
\* VarMap.

\* The id that names user variable v, or 0 when v was never seen.
IdOf(m, v) == IF \E i \in DOMAIN m : m[i] = v
              THEN CHOOSE i \in DOMAIN m : m[i] = v
              ELSE 0

\* add_var: the signed id of a literal, allocating a fresh id for a new variable.
add_var(e, l) ==
    LET known == IdOf(e.vm, l.var)
        id == IF known # 0 THEN known ELSE Len(e.vm) + 1
        m == IF known # 0 THEN e.vm ELSE Append(e.vm, l.var)
    IN [e |-> [e EXCEPT !.vm = m], id |-> IF l.pos THEN id ELSE -id]

\* new_var: a fresh anonymous id.
new_var(e) == [e |-> [e EXCEPT !.vm = Append(e.vm, Anon)], id |-> Len(e.vm) + 1]

\* (0..k).map(|_| varmap.new_var()).collect()
new_vars(e, k) ==
    [e |-> [e EXCEPT !.vm = e.vm \o [i \in 1 .. k |-> Anon]],
     ids |-> [i \in 1 .. k |-> Len(e.vm) + i]]

\* lits.map(|v| varmap.add_var(v)).collect()
RECURSIVE add_vars(_, _)

\* The ids of the rest of lits, h being add_var of the first.
add_vars_rest(h, lits) ==
    [e |-> add_vars(h.e, lits).e, ids |-> <<h.id>> \o add_vars(h.e, lits).ids]

add_vars(e, lits) ==
    IF lits = <<>> THEN [e |-> e, ids |-> <<>>]
    ELSE add_vars_rest(add_var(e, Head(lits)), Tail(lits))

\* Backend::add_clause
add_clause(e, c) == [e EXCEPT !.cl = Append(e.cl, c)]

add_clauses(e, cs) == [e EXCEPT !.cl = e.cl \o cs]

----------------------------------------------------------------------------
\* Circuit builder: the clauses each gate emits under direction dir.

in_to_out(dir) == dir \in {InToOut, Both}
out_to_in(dir) == dir \in {OutToIn, Both}

equal(dir, a, b) ==
    (IF in_to_out(dir) THEN << <<-a, b>> >> ELSE <<>>)
    \o (IF out_to_in(dir) THEN << <<a, -b>> >> ELSE <<>>)

set_zero(a) == << <<-a>> >>

and_gate(dir, inputs, o) ==
    (IF in_to_out(dir) THEN << Neg(inputs) \o <<o>> >> ELSE <<>>)
    \o (IF out_to_in(dir) THEN [i \in DOMAIN inputs |-> <<-o, inputs[i]>>] ELSE <<>>)

or_gate(dir, inputs, o) ==
    (IF in_to_out(dir) THEN [i \in DOMAIN inputs |-> <<-inputs[i], o>>] ELSE <<>>)
    \o (IF out_to_in(dir) THEN << <<-o>> \o inputs >> ELSE <<>>)

----------------------------------------------------------------------------------------------------------------------------------------------------
\* Sequential counter.  Intermediate results are handed on as operator
\* arguments: r, c, row and a below are the values the code binds with let.

NoOut == [some |-> FALSE, row |-> <<>>]
SomeOut(row) == [some |-> TRUE, row |-> row]

\* col_gates with the AND-auxiliary defined in both directions whatever the
\* direction of the circuit.
col_gates_and_both(a, dir, v, prev_s, new_s, j) ==
    add_clauses(a.e, and_gate(Both, <<v, prev_s[j - 1]>>, a.id)
                     \o or_gate(dir, <<a.id, prev_s[j]>>, new_s[j]))

\* col_gates with the two columns of the previous row exchanged.
col_gates_off_by_one(a, dir, v, prev_s, new_s, j) ==
    add_clauses(a.e, and_gate(dir, <<v, prev_s[j]>>, a.id)
                     \o or_gate(dir, <<a.id, prev_s[j - 1]>>, new_s[j]))

\* and_gate([v, prev_s[j-1]], a); or_gate([a, prev_s[j]], new_s[j]), a = new_var().
col_gates(a, dir, v, prev_s, new_s, j) ==
    add_clauses(a.e, and_gate(dir, <<v, prev_s[j - 1]>>, a.id)
                     \o or_gate(dir, <<a.id, prev_s[j]>>, new_s[j]))

\* for j in 1..k { ... }                                    (j is 1-based here)
RECURSIVE counter_cols(_, _, _, _, _, _, _)
counter_cols(e, dir, v, prev_s, new_s, j, k) ==
    IF j > k THEN e
    ELSE counter_cols(col_gates(new_var(e), dir, v, prev_s, new_s, j),
                      dir, v, prev_s, new_s, j + 1, k)

RECURSIVE counter_rows(_, _, _, _, _, _, _)

\* One iteration of the row loop, row being new_s and the encoder after it.
counter_row(row, dir, vs, i, prev_s, k, out) ==
    counter_rows(
        counter_cols(add_clauses(row.e, or_gate(dir, <<vs[i], prev_s[1]>>, row.ids[1])),
                     dir, vs[i], prev_s, row.ids, 2, k),
        dir, vs, i + 1, row.ids, k, out)

\* for (i, &v) in vars.iter().enumerate().skip(1) { ... }   (i is 1-based here)
counter_rows(e, dir, vs, i, prev_s, k, out) ==
    IF i > Len(vs) THEN [e |-> e, out |-> prev_s, panic |-> FALSE]
    ELSE counter_row(IF i = Len(vs) /\ out.some
                     THEN [e |-> e, ids |-> out.row]
                     ELSE new_vars(e, k),
                     dir, vs, i, prev_s, k, out)

\* counter_first returning the first row where the code panics on no variable.
counter_first_no_panic(ids, s, k, dir, out) ==
    IF ids = <<>> THEN [e |-> s.e, out |-> s.ids, panic |-> FALSE]
    ELSE counter_rows(
            add_clauses(s.e, equal(dir, ids[1], s.ids[1])
                             \o Flatten([j \in 1 .. k - 1 |-> set_zero(s.ids[j + 1])])),
            dir, ids, 2, s.ids, k, out)

\* The first row s = prev_s: equal(vars[0], s[0]), set_zero(s[j]) for j > 0,
\* or the panic when there is no variable; then the row loop.
counter_first(ids, s, k, dir, out) ==
    IF ids = <<>> THEN [e |-> s.e, out |-> <<>>, panic |-> TRUE]
    ELSE counter_rows(
            add_clauses(s.e, equal(dir, ids[1], s.ids[1])
                             \o Flatten([j \in 1 .. k - 1 |-> set_zero(s.ids[j + 1])])),
            dir, ids, 2, s.ids, k, out)

\* vs is the result of lits.map(|v| varmap.add_var(v)).collect().
counter_vars(vs, k, dir, out) == counter_first(vs.ids, new_vars(vs.e, k), k, dir, out)

\* The result is [e, out, panic]: the encoder afterwards, the returned row, and
\* whether an assert!/panic! aborted the call.
encode_cardinality_constraint(e, lits, k, dir, out) ==
    IF k = 0 \/ (out.some /\ k > Len(out.row))
    THEN [e |-> e, out |-> <<>>, panic |-> TRUE]
    ELSE counter_vars(add_vars(e, lits), k, dir, out)

----------------------------------------------------------------------------
\* Results of the constraint entry points: [e, ret, panic], ret being the
\* returned repr (0 for encode, which returns nothing).

Ok(e, ret) == [e |-> e, ret |-> ret, panic |-> FALSE]
Panic(e) == [e |-> e, ret |-> 0, panic |-> TRUE]

\* repr.unwrap_or_else(|| varmap.new_var())
unwrap_or_new(e, repr) == IF repr # None THEN [e |-> e, id |-> repr] ELSE new_var(e)

\* forbid asserting the literal where the code denies it.
forbid_positive(h) == add_clause(h.e, <<h.id>>)

\* let v = varmap.add_var(v); solver.add_clause(clause![-v]);
forbid(h) == add_clause(h.e, <<-h.id>>)

\* for v in lits { ... }
RECURSIVE forbid_each(_, _)
forbid_each(e, lits) ==
    IF lits = <<>> THEN e
    ELSE forbid_each(forbid(add_var(e, Head(lits))), Tail(lits))

\* tie_repr returning the counter's literal r where the code returns repr.
tie_repr_returns_r(e, r, repr) ==
    IF repr # None
    THEN Ok(add_clauses(e, << <<r, repr>>, <<-r, -repr>> >>), r)
    ELSE Ok(e, r)

\* if let Some(repr) = repr { add [r, repr]; add [-r, -repr]; repr } else { r }
tie_repr(e, r, repr) ==
    IF repr # None
    THEN Ok(add_clauses(e, << <<r, repr>>, <<-r, -repr>> >>), repr)
    ELSE Ok(e, r)

\* zero_clauses without the clauses [-l, -repr] that equals_repr adds.
zero_clauses_implies_only(vs, id, eq) == add_clauses(vs.e, << vs.ids \o <<id>> >>)

\* The clause (l1 or ... or ln or repr) and, for equals_repr, one clause
\* [-l, -repr] per literal; vs is the result of mapping add_var over lits.
zero_clauses(vs, id, eq) ==
    add_clauses(vs.e,
        << vs.ids \o <<id>> >>
        \o (IF eq THEN [i \in DOMAIN vs.ids |-> <<-vs.ids[i], -id>>] ELSE <<>>))

\* The k = 0 reification of AtMostK and ExactlyK, r being the unwrapped repr.
zero_repr(r, lits, eq) == Ok(zero_clauses(add_vars(r.e, lits), r.id, eq), r.id)

----------------------------------------------------------------------------
\* AtMostK.  c is the result of encode_cardinality_constraint.

\* solver.add_clause(clause![-out.last().unwrap()])
AtMostK_deny(c) ==
    IF c.panic THEN Panic(c.e) ELSE Ok(add_clause(c.e, <<-Last(c.out)>>), 0)

\* AtMostK::encode with the counter one column short: out[k - 1] is denied.
AtMostK_encode_short(e, k, lits) ==
    IF k = 0 THEN Ok(forbid_each(e, lits), 0)
    ELSE AtMostK_deny(encode_cardinality_constraint(e, lits, k, InToOut, NoOut))

\* AtMostK::encode with the counter built in the direction of AtleastK::encode.
AtMostK_encode_wrong_dir(e, k, lits) ==
    IF k = 0 THEN Ok(forbid_each(e, lits), 0)
    ELSE AtMostK_deny(encode_cardinality_constraint(e, lits, k + 1, OutToIn, NoOut))

AtMostK_encode(e, k, lits) ==
    IF k = 0 THEN Ok(forbid_each(e, lits), 0)
    ELSE AtMostK_deny(encode_cardinality_constraint(e, lits, k + 1, InToOut, NoOut))

\* AtMostK_repr with r = out.last(), the literal AtleastK reifies with.
AtMostK_repr_positive(c, repr) ==
    IF c.panic THEN Panic(c.e) ELSE tie_repr(c.e, Last(c.out), repr)

\* let r = -out.last().unwrap(); then the repr is tied to r.
AtMostK_repr(c, repr) ==
    IF c.panic THEN Panic(c.e) ELSE tie_repr(c.e, -Last(c.out), repr)

AtMostK_implies_repr(e, k, lits, repr) ==
    IF k = 0 THEN zero_repr(unwrap_or_new(e, repr), lits, FALSE)
    ELSE AtMostK_repr(encode_cardinality_constraint(e, lits, k + 1, OutToIn, NoOut), repr)

\* AtMostK::encode_constraint_equals_repr with the direction of implies_repr.
AtMostK_equals_repr_one_way(e, k, lits, repr) ==
    IF k = 0 THEN zero_repr(unwrap_or_new(e, repr), lits, TRUE)
    ELSE AtMostK_repr(encode_cardinality_constraint(e, lits, k + 1, OutToIn, NoOut), repr)

AtMostK_equals_repr(e, k, lits, repr) ==
    IF k = 0 THEN zero_repr(unwrap_or_new(e, repr), lits, TRUE)
    ELSE AtMostK_repr(encode_cardinality_constraint(e, lits, k + 1, Both, NoOut), repr)

----------------------------------------------------------------------------
\* AtleastK.

\* solver.add_clause(clause![*out.last().unwrap()])
AtleastK_assert(c) ==
    IF c.panic THEN Panic(c.e) ELSE Ok(add_clause(c.e, <<Last(c.out)>>), 0)

\* AtleastK::encode with the counter built in the direction of AtMostK::encode.
AtleastK_encode_wrong_dir(e, k, lits) ==
    IF k = 0 THEN Ok(e, 0)
    ELSE AtleastK_assert(encode_cardinality_constraint(e, lits, k, InToOut, NoOut))

\* AtleastK::encode registering its literals where the code returns at once.
AtleastK_encode_registers(e, k, lits) ==
    IF k = 0 THEN Ok(add_vars(e, lits).e, 0)
    ELSE AtleastK_assert(encode_cardinality_constraint(e, lits, k, OutToIn, NoOut))

AtleastK_encode(e, k, lits) ==
    IF k = 0 THEN Ok(e, 0)
    ELSE AtleastK_assert(encode_cardinality_constraint(e, lits, k, OutToIn, NoOut))

\* let r = *out.last().unwrap(); then the repr is tied to r.
AtleastK_repr(c, repr) ==
    IF c.panic THEN Panic(c.e) ELSE tie_repr(c.e, Last(c.out), repr)

\* The k = 0 reification: the unit clause [repr], r being the unwrapped repr.
AtleastK_zero_repr(r) == Ok(add_clause(r.e, <<r.id>>), r.id)

AtleastK_implies_repr(e, k, lits, repr) ==
    IF k = 0 THEN AtleastK_zero_repr(unwrap_or_new(e, repr))
    ELSE AtleastK_repr(encode_cardinality_constraint(e, lits, k, InToOut, NoOut), repr)

\* AtleastK::encode_constraint_equals_repr with the direction of implies_repr.
AtleastK_equals_repr_one_way(e, k, lits, repr) ==
    IF k = 0 THEN AtleastK_zero_repr(unwrap_or_new(e, repr))
    ELSE AtleastK_repr(encode_cardinality_constraint(e, lits, k, InToOut, NoOut), repr)

AtleastK_equals_repr(e, k, lits, repr) ==
    IF k = 0 THEN AtleastK_zero_repr(unwrap_or_new(e, repr))
    ELSE AtleastK_repr(encode_cardinality_constraint(e, lits, k, Both, NoOut), repr)

----------------------------------------------------------------------------
\* ExactlyK.

\* add [out[len - 2]]; add [-out[len - 1]]
ExactlyK_assert(c) ==
    IF c.panic THEN Panic(c.e)
    ELSE Ok(add_clauses(c.e, << <<c.out[Len(c.out) - 1]>>, <<-c.out[Len(c.out)]>> >>), 0)

\* ExactlyK::encode without the upper bound: only "at least k" is asserted.
ExactlyK_encode_no_upper(e, k, lits) ==
    IF k = 0 THEN Ok(forbid_each(e, lits), 0)
    ELSE AtleastK_assert(encode_cardinality_constraint(e, lits, k, Both, NoOut))

ExactlyK_encode(e, k, lits) ==
    IF k = 0 THEN Ok(forbid_each(e, lits), 0)
    ELSE ExactlyK_assert(encode_cardinality_constraint(e, lits, k + 1, Both, NoOut))

\* r1 = out[len - 2]; r2 = out[len - 1]; add [-r1, r2, repr]; and for
\* equals_repr add [r1, -repr]; add [-r2, -repr].
ExactlyK_repr(c, repr, eq) ==
    IF c.panic THEN Panic(c.e)
    ELSE Ok(add_clauses(c.e,
               << <<-c.out[Len(c.out) - 1], c.out[Len(c.out)], repr>> >>
               \o (IF eq THEN << <<c.out[Len(c.out) - 1], -repr>>,
                                 <<-c.out[Len(c.out)], -repr>> >>
                   ELSE <<>>)),
            repr)

\* The method body after let repr = repr.unwrap_or_else(..), r being that repr.
ExactlyK_with_repr(r, k, lits, eq) ==
    IF k = 0 THEN zero_repr(r, lits, eq)
    ELSE ExactlyK_repr(encode_cardinality_constraint(r.e, lits, k + 1, Both, NoOut),
                       r.id, eq)

ExactlyK_implies_repr(e, k, lits, repr) ==
    ExactlyK_with_repr(unwrap_or_new(e, repr), k, lits, FALSE)

ExactlyK_equals_repr(e, k, lits, repr) ==
    ExactlyK_with_repr(unwrap_or_new(e, repr), k, lits, TRUE)

----------------------------------------------------------------------------
\* SameCardinality.

RECURSIVE MaxLen(_)
MaxLen(groups) ==
    IF groups = <<>> THEN 0
    ELSE IF Len(Head(groups)) > MaxLen(Tail(groups)) THEN Len(Head(groups))
    ELSE MaxLen(Tail(groups))

RECURSIVE MinLen(_)
MinLen(groups) ==
    IF Len(groups) = 1 THEN Len(groups[1])
    ELSE IF Len(Head(groups)) < MinLen(Tail(groups)) THEN Len(Head(groups))
    ELSE MinLen(Tail(groups))

\* for v in row.iter().rev().take(n) { solver.add_clause(clause![-v]); }
zero_tail(row, n) == [i \in 1 .. n |-> <<-row[Len(row) + 1 - i]>>]

RECURSIVE same_groups(_, _, _)

\* After the counter of the first group of groups returned c.
same_next(c, groups, repr) ==
    IF c.panic THEN Panic(c.e) ELSE same_groups(c.e, Tail(groups), repr)

\* for lits in self.lits { encode_cardinality_constraint(lits, len, Both, Some(&repr)) }
same_groups(e, groups, repr) ==
    IF groups = <<>> THEN Ok(e, 0)
    ELSE same_next(encode_cardinality_constraint(e, Head(groups), Len(Head(groups)),
                                                 Both, SomeOut(repr)),
                   groups, repr)

\* The body of encode after let repr = (0..max).map(..).collect().
same_shared(repr, groups, max, min) ==
    same_groups(add_clauses(repr.e, zero_tail(repr.ids, max - min)), groups, repr.ids)

SameCardinality_encode(e, groups) ==
    IF groups = <<>> THEN Ok(e, 0)
    ELSE same_shared(new_vars(e, MaxLen(groups)), groups, MaxLen(groups), MinLen(groups))

RECURSIVE same_rows(_, _, _, _)

\* reprs.push(repr) once the counter of the group returned c.
same_push(c, row, groups, max, reprs) ==
    IF c.panic THEN [e |-> c.e, reprs |-> reprs, panic |-> TRUE]
    ELSE same_rows(c.e, Tail(groups), max, Append(reprs, row))

\* One group: its row repr is allocated, its tail zeroed, its counter encoded.
same_row(repr, groups, max, reprs) ==
    same_push(
        encode_cardinality_constraint(
            add_clauses(repr.e, zero_tail(repr.ids, max - Len(Head(groups)))),
            Head(groups), Len(Head(groups)), Both, SomeOut(repr.ids)),
        repr.ids, groups, max, reprs)

\* for lits in constraint.lits { ... }
same_rows(e, groups, max, reprs) ==
    IF groups = <<>> THEN [e |-> e, reprs |-> reprs, panic |-> FALSE]
    ELSE same_row(new_vars(e, max), groups, max, reprs)

\* The clauses of column i, r being the fresh variable of the column.
equiv_clauses(r, reprs, i, eq) ==
    add_clauses(r.e,
        << [g \in DOMAIN reprs |-> reprs[g][i]] \o <<r.id>>,
           [g \in DOMAIN reprs |-> -reprs[g][i]] \o <<r.id>> >>
        \o (IF eq
            THEN [g \in 1 .. Len(reprs) - 1 |-> <<-reprs[g][i], reprs[g + 1][i], -r.id>>]
                 \o << <<-reprs[Len(reprs)][i], reprs[1][i], -r.id>> >>
            ELSE <<>>))

RECURSIVE same_equiv(_, _, _, _, _, _)

same_equiv_push(r, reprs, i, max, eq, equiv_reprs) ==
    same_equiv(equiv_clauses(r, reprs, i, eq), reprs, i + 1, max, eq,
               Append(equiv_reprs, r.id))

\* for i in 0..max { r = new_var(); ...; equiv_reprs.push(r) }   (i is 1-based here)
same_equiv(e, reprs, i, max, eq, equiv_reprs) ==
    IF i > max THEN [e |-> e, equiv_reprs |-> equiv_reprs]
    ELSE same_equiv_push(new_var(e), reprs, i, max, eq, equiv_reprs)

\* The closing clauses: [-repr, e_i] per column for equals, then [-e_1, .., repr].
same_close(q, repr, eq) ==
    Ok(add_clauses(q.e,
          (IF eq THEN [i \in DOMAIN q.equiv_reprs |-> <<-repr, q.equiv_reprs[i]>>]
           ELSE <<>>)
          \o << Neg(q.equiv_reprs) \o <<repr>> >>),
       repr)

\* After the per-group loop returned rows.
same_columns(rows, repr, max, eq) ==
    IF rows.panic THEN Panic(rows.e)
    ELSE same_close(same_equiv(rows.e, rows.reprs, 1, max, eq, <<>>), repr, eq)

\* The function body after let repr = repr.unwrap_or_else(..), r being that repr.
\* same_with_repr leaving the repr of an empty group list free.
same_with_repr_free(r, groups, eq) ==
    IF groups = <<>> THEN Ok(r.e, r.id)
    ELSE same_columns(same_rows(r.e, groups, MaxLen(groups), <<>>),
                      r.id, MaxLen(groups), eq)

same_with_repr(r, groups, eq) ==
    IF groups = <<>> THEN Ok(add_clause(r.e, <<r.id>>), r.id)
    ELSE same_columns(same_rows(r.e, groups, MaxLen(groups), <<>>),
                      r.id, MaxLen(groups), eq)

encode_same_cardinality_repr(e, groups, repr, eq) ==
    same_with_repr(unwrap_or_new(e, repr), groups, eq)

SameCardinality_implies_repr(e, groups, repr) ==
    encode_same_cardinality_repr(e, groups, repr, FALSE)

SameCardinality_equals_repr(e, groups, repr) ==
    encode_same_cardinality_repr(e, groups, repr, TRUE)

----
\* Solver backend: a decision procedure for the clauses it was given.

ClauseSet(cl) == {Range(cl[i]) : i \in DOMAIN cl}

\* The clauses left once literal l is true.
Assign(cs, l) == {c \ {-l} : c \in {d \in cs : l \notin d}}

RECURSIVE Dpll(_)
Dpll(cs) ==
    IF cs = {} THEN TRUE
    ELSE IF {} \in cs THEN FALSE
    ELSE IF \E c \in cs : Cardinality(c) = 1
    THEN LET u == CHOOSE c \in cs : Cardinality(c) = 1
             l == CHOOSE x \in u : TRUE
         IN Dpll(Assign(cs, l))
    ELSE LET d == CHOOSE c \in cs : TRUE
             l == CHOOSE x \in d : TRUE
         IN Dpll(Assign(cs, l)) \/ Dpll(Assign(cs, -l))

\* solve_with(assumptions, []) on the clauses cl.
solve_with(cl, assumptions) == Dpll(ClauseSet(cl) \cup {{a} : a \in assumptions})

----------------------------------------------------------------------------
\* The constraints handed to the encoder.

LitList(first, pol) == [i \in DOMAIN pol |-> [pos |-> pol[i], var |-> first + i - 1]]

\* Lists of distinct named literals (any polarity) over the variables 1..n.
LitLists == {LitList(1, pol) : pol \in UNION {[1 .. n -> BOOLEAN] : n \in 0 .. MaxN}}

RECURSIVE Sum(_)
Sum(s) == IF s = <<>> THEN 0 ELSE Head(s) + Sum(Tail(s))

\* lits cut into consecutive groups of the given sizes (add_lits once per group).
RECURSIVE Split(_, _)
Split(lits, sizes) ==
    IF sizes = <<>> THEN <<>>
    ELSE <<SubSeq(lits, 1, Head(sizes))>>
         \o Split(SubSeq(lits, Head(sizes) + 1, Len(lits)), Tail(sizes))

GroupLists ==
    {Split(lits, sizes) :
        <<lits, sizes>> \in
            {x \in LitLists \X UNION {[1 .. m -> 0 .. MaxN] : m \in 0 .. MaxN} :
                Sum(x[2]) = Len(x[1])}}

KTypes == {"AtMostK", "AtleastK", "ExactlyK"}

Constraints ==
    [type : KTypes, k : 0 .. MaxK, lits : LitLists, groups : {<<>>}]
    \cup [type : {"SameCardinality"}, k : {0}, lits : {<<>>}, groups : GroupLists]

\* Constraint::encode
encode(c, e) ==
    CASE c.type = "AtMostK" -> AtMostK_encode(e, c.k, c.lits)
      [] c.type = "AtleastK" -> AtleastK_encode(e, c.k, c.lits)
      [] c.type = "ExactlyK" -> ExactlyK_encode(e, c.k, c.lits)
      [] c.type = "SameCardinality" -> SameCardinality_encode(e, c.groups)

\* ConstraintRepr::encode_constraint_implies_repr
encode_constraint_implies_repr(c, repr, e) ==
    CASE c.type = "AtMostK" -> AtMostK_implies_repr(e, c.k, c.lits, repr)
      [] c.type = "AtleastK" -> AtleastK_implies_repr(e, c.k, c.lits, repr)
      [] c.type = "ExactlyK" -> ExactlyK_implies_repr(e, c.k, c.lits, repr)
      [] c.type = "SameCardinality" -> SameCardinality_implies_repr(e, c.groups, repr)

\* ConstraintRepr::encode_constraint_equals_repr
encode_constraint_equals_repr(c, repr, e) ==
    CASE c.type = "AtMostK" -> AtMostK_equals_repr(e, c.k, c.lits, repr)
      [] c.type = "AtleastK" -> AtleastK_equals_repr(e, c.k, c.lits, repr)
      [] c.type = "ExactlyK" -> ExactlyK_equals_repr(e, c.k, c.lits, repr)
      [] c.type = "SameCardinality" -> SameCardinality_equals_repr(e, c.groups, repr)

----------------------------------------------------------------------------
\* Lit<V> is the record [pos, var]; VarType<V> is Named(lit) or Unnamed(i32).

Lit_Pos(v) == [pos |-> TRUE, var |-> v]
Lit_Neg(v) == [pos |-> FALSE, var |-> v]

Lit_var(l) == l.var
Lit_unwrap(l) == l.var

\* matches!(self, Self::Pos(_))
is_pos(l) == l.pos

\* matches!(self, Self::Pos(_)), as the code has it.
is_neg(l) == l.pos

\* impl Not for Lit
Lit_not(l) == IF l.pos THEN Lit_Neg(l.var) ELSE Lit_Pos(l.var)

NoLit == [pos |-> TRUE, var |-> 0]
Named(l) == [arm |-> "Named", lit |-> l, id |-> 0]
Unnamed(i) == [arm |-> "Unnamed", lit |-> NoLit, id |-> i]

\* The i32 of the model is Width bits wide.
IntMin == -(2 ^ (Width - 1))
IntMax == 2 ^ (Width - 1) - 1

\* -v on an i32: the negation of IntMin overflows, which panics in a build
\* with overflow checks and wraps to IntMin in a build without.
neg_i32(v) ==
    IF v = IntMin
    THEN {[panic |-> TRUE, val |-> v], [panic |-> FALSE, val |-> v]}
    ELSE {[panic |-> FALSE, val |-> -v]}

\* impl Not for VarType: the outcomes [panic, val] a build can produce.
VarType_not(x) ==
    IF x.arm = "Named"
    THEN {[panic |-> FALSE, val |-> Named(Lit_not(x.lit))]}
    ELSE {[panic |-> o.panic, val |-> Unnamed(o.val)] : o \in neg_i32(x.id)}

\* varmap.add_var(x) for a VarType, h being add_var of the literal of a Named.
add_var_type(e, x) ==
    IF x.arm = "Named" THEN add_var(e, x.lit) ELSE [e |-> e, id |-> x.id]

\* The unit clause of the literal a.id.
unit_clause(a) == add_clause(a.e, <<a.id>>)

\* Constraint::encode of a VarType: the single unit clause.
VarType_encode(e, x) == Ok(unit_clause(add_var_type(e, x)), 0)

----------------------------------------------------------------------------
\* Solver::solve and Solver::value of the backend, and Encoder::solve.

\* Assignment a of the ids 1..n makes clause c true.
ClauseTrue(a, c) == \E i \in DOMAIN c : IF c[i] > 0 THEN a[c[i]] ELSE ~a[-c[i]]

\* The total assignments of the allocated ids that satisfy the clauses.
SatAssignments(cl, n) ==
    {a \in [1 .. n -> BOOLEAN] : \A j \in DOMAIN cl : ClauseTrue(a, cl[j])}

\* What the backend can answer: Unknown whatever the clauses are (MockSolver
\* always does, a real solver when it gives up), Sat with the values of a
\* satisfying assignment, Unsat when there is none.
SolveOutcomes(cl, n) ==
    {[result |-> "Unknown", value |-> <<>>]}
    \cup (IF SatAssignments(cl, n) = {}
          THEN {[result |-> "Unsat", value |-> <<>>]}
          ELSE {[result |-> "Sat", value |-> a] : a \in SatAssignments(cl, n)})

\* Solver::solve() -> bool: true if the problem is satisfiable.
solve_result(o) == o.result = "Sat"

\* varmap.lookup(v): whether id v names a user variable.
lookup_some(vm, v) == vm[v] # Anon

\* assignment_of with the polarity of the value dropped.
assignment_of_positive(vm, value, v) ==
    IF lookup_some(vm, v) THEN Named(Lit_Pos(vm[v])) ELSE Unnamed(v)

\* The closure of Encoder::solve for one id v, value being the backend's answer.
assignment_of(vm, value, v) ==
    IF lookup_some(vm, v)
    THEN Named(IF value[v] THEN Lit_Pos(vm[v]) ELSE Lit_Neg(vm[v]))
    ELSE Unnamed(IF value[v] THEN v ELSE -v)

\* varmap.iter_internal_vars(): every allocated id in allocation order.
iter_internal_vars(vm) == [i \in DOMAIN vm |-> i]

\* Encoder::solve asking the backend for values whatever solve() answered.
Encoder_solve_always_queries(vm, o) ==
    IF solve_result(o)
    THEN [model |-> [some |-> TRUE,
                     assignments |->
                        {assignment_of(vm, o.value, v) : v \in Range(iter_internal_vars(vm))}],
          queried |-> iter_internal_vars(vm)]
    ELSE [model |-> NoModel, queried |-> iter_internal_vars(vm)]

\* Encoder::solve: [model, queried], queried being the ids value() was asked for.
Encoder_solve(vm, o) ==
    IF solve_result(o)
    THEN [model |-> [some |-> TRUE,
                     assignments |->
                        {assignment_of(vm, o.value, v) : v \in Range(iter_internal_vars(vm))}],
          queried |-> iter_internal_vars(vm)]
    ELSE [model |-> NoModel, queried |-> <<>>]

----------------------------------------------------------------------------
\* Model lookups, m being the assignments of the Model.  Option<bool> is the
\* record [kind, val] with kind "Some", "None" or "unreachable".

OptSome(b) == [kind |-> "Some", val |-> b]
OptNone == [kind |-> "None", val |-> FALSE]
Unreachable == [kind |-> "unreachable", val |-> FALSE]

\* Model::var
Model_var(m, v) ==
    CASE Named(Lit_Pos(v)) \in m /\ Named(Lit_Neg(v)) \notin m -> OptSome(TRUE)
      [] Named(Lit_Pos(v)) \notin m /\ Named(Lit_Neg(v)) \in m -> OptSome(FALSE)
      [] Named(Lit_Pos(v)) \notin m /\ Named(Lit_Neg(v)) \notin m -> OptNone
      [] OTHER -> Unreachable

\* Model::lit without the polarity: the value of the variable is returned.
Model_lit_of_var(o, pos) == o

\* The rest of Model::lit once self.var(lit.unwrap()) returned o.
Model_lit_of(o, pos) ==
    IF o.kind = "Some" THEN OptSome(IF pos THEN o.val ELSE ~o.val) ELSE o

\* Model::lit
Model_lit(m, l) == Model_lit_of(Model_var(m, Lit_unwrap(l)), is_pos(l))

\* Index::index without the lookup of the negated literal.
Model_index_no_negation(m, x) ==
    IF x \in m THEN {[panic |-> FALSE, val |-> TRUE]}
    ELSE {[panic |-> TRUE, val |-> FALSE]}

\* Index::index: the outcomes [panic, val] a build can produce.
Model_index(m, x) ==
    IF x \in m THEN {[panic |-> FALSE, val |-> TRUE]}
    ELSE {IF ~o.panic /\ o.val \in m
          THEN [panic |-> FALSE, val |-> FALSE]
          ELSE [panic |-> TRUE, val |-> FALSE] : o \in VarType_not(x)}

----------------------------------------------------------------------------
\* The encoder session.

Encoder == [vm |-> varmap, cl |-> backend]

NoCall == [method |-> "none",
           c |-> [type |-> "none", k |-> 0, lits |-> <<>>, groups |-> <<>>],
           repr |-> None, ret |-> 0]

\* Encoder::new()
Init ==
    /\ varmap = <<>>
    /\ backend = <<>>
    /\ call = NoCall
    /\ pc = "ready"
    /\ solver = NotSolved
    /\ model = NoModel
    /\ twin = NoTwin
    /\ probe = NoProbe

\* The anonymous ids allocated so far.
AnonIds == {i \in DOMAIN varmap : varmap[i] = Anon}

Finish(method, c, repr, r) ==
    /\ varmap' = r.e.vm
    /\ backend' = r.e.cl
    /\ call' = [method |-> method, c |-> c, repr |-> repr, ret |-> r.ret]
    /\ pc' = IF r.panic THEN "panicked" ELSE "encoded"
    /\ UNCHANGED <<solver, model, twin, probe>>

\* let repr = encoder.varmap.new_var();
NewVar ==
    /\ pc = "ready"
    /\ Cardinality(AnonIds) < MaxPre
    /\ varmap' = new_var(Encoder).e.vm
    /\ UNCHANGED <<backend, call, pc, solver, model, twin, probe>>

\* Encoder::add_constraint
AddConstraint ==
    /\ pc = "ready"
    /\ \E c \in Constraints : Finish("encode", c, None, encode(c, Encoder))

\* Encoder::add_constraint_implies_repr
AddConstraintImpliesRepr ==
    /\ pc = "ready"
    /\ \E c \in Constraints :
          Finish("implies", c, None, encode_constraint_implies_repr(c, None, Encoder))

\* Encoder::add_constraint_equals_repr
AddConstraintEqualsRepr ==
    /\ pc = "ready"
    /\ \E c \in Constraints :
          Finish("equals", c, None, encode_constraint_equals_repr(c, None, Encoder))

\* constraint.encode_constraint_implies_repr(Some(repr), backend, varmap)
EncodeImpliesRepr ==
    /\ pc = "ready"
    /\ \E c \in Constraints, p \in AnonIds :
          Finish("implies", c, p, encode_constraint_implies_repr(c, p, Encoder))

\* constraint.encode_constraint_equals_repr(Some(repr), backend, varmap)
EncodeEqualsRepr ==
    /\ pc = "ready"
    /\ \E c \in Constraints, p \in AnonIds :
          Finish("equals", c, p, encode_constraint_equals_repr(c, p, Encoder))

Dirs == {InToOut, OutToIn, Both}

\* The rows a caller can supply as out: sequences of allocated anonymous ids.
OutRows == UNION {[1 .. n -> AnonIds] : n \in 0 .. MaxPre}

\* r is what encode_cardinality_constraint returned.
CounterFinish(lits, k, dir, out, r) ==
    /\ varmap' = r.e.vm
    /\ backend' = r.e.cl
    /\ call' = [method |-> "counter",
                c |-> [type |-> "counter", k |-> k, lits |-> lits, groups |-> <<>>],
                repr |-> None, ret |-> 0, dir |-> dir, out |-> out, row |-> r.out]
    /\ pc' = IF r.panic THEN "panicked" ELSE "encoded"
    /\ UNCHANGED <<solver, model, twin, probe>>

\* encode_cardinality_constraint(lits, k, dir, out, solver, varmap), called
\* from inside the module with any arguments.
EncodeCounter ==
    /\ pc = "ready"
    /\ \E lits \in LitLists, k \in 0 .. MaxK + 1, dir \in Dirs,
          out \in {NoOut} \cup {SomeOut(row) : row \in OutRows} :
          CounterFinish(lits, k, dir, out,
                        encode_cardinality_constraint(Encoder, lits, k, dir, out))

\* encoder.add_constraint(r) or encoder.add_constraint(!r), r being the
\* VarType::Unnamed(repr) that the last add_constraint_*_repr returned.
AddRepr ==
    /\ pc = "encoded"
    /\ call.method \in {"implies", "equals"}
    /\ call.repr = None
    /\ \E x \in {[panic |-> FALSE, val |-> Unnamed(call.ret)]}
                \cup VarType_not(Unnamed(call.ret)) :
          /\ ~x.panic
          /\ varmap' = VarType_encode(Encoder, x.val).e.vm
          /\ backend' = VarType_encode(Encoder, x.val).e.cl
          /\ call' = [method |-> call.method, c |-> call.c, repr |-> call.repr,
                      ret |-> call.ret, unit |-> x.val.id]
    /\ pc' = "composed"
    /\ UNCHANGED <<solver, model, twin, probe>>

\* encoder.solve(), on sessions of at most MaxSolve allocated ids.
Solve ==
    /\ pc \in {"ready", "encoded", "composed"}
    /\ Len(varmap) <= MaxSolve
    /\ \E o \in SolveOutcomes(backend, Len(varmap)) :
          /\ solver' = [result |-> o.result, value |-> o.value,
                        queried |-> Encoder_solve(varmap, o).queried]
          /\ model' = Encoder_solve(varmap, o).model
    /\ pc' = "solved"
    /\ UNCHANGED <<varmap, backend, call, twin, probe>>

\* The literals and variables a Model is asked about.
Lits == {Lit_Pos(v) : v \in V} \cup {Lit_Neg(v) : v \in V}
VarTypes == {Named(l) : l \in Lits} \cup {Unnamed(i) : i \in (IntMin .. IntMax) \ {0}}

\* The literals a Model is indexed with: the named ones, the anonymous ones
\* around the allocated ids, and the least i32.
IndexArgs ==
    {Named(l) : l \in Lits}
    \cup {Unnamed(i) : i \in ((-(MaxSolve + 1)) .. (MaxSolve + 1)) \ {0}}
    \cup {Unnamed(IntMin)}

Looked(op, arg, res) ==
    /\ probe' = [op |-> op, arg |-> arg, res |-> res]
    /\ pc' = "looked_up"
    /\ UNCHANGED <<varmap, backend, call, solver, model, twin>>

\* model.var(v)
ModelVar ==
    /\ pc = "solved" /\ model.some
    /\ \E v \in V : Looked("var", v, Model_var(model.assignments, v))

\* model.lit(l)
ModelLit ==
    /\ pc = "solved" /\ model.some
    /\ \E l \in Lits : Looked("lit", l, Model_lit(model.assignments, l))

\* model[x]
ModelIndex ==
    /\ pc = "solved" /\ model.some
    /\ \E x \in IndexArgs : \E o \in Model_index(model.assignments, x) :
          Looked("index", x, o)

Next ==
    \/ NewVar
    \/ AddConstraint
    \/ AddConstraintImpliesRepr
    \/ AddConstraintEqualsRepr
    \/ EncodeImpliesRepr
    \/ EncodeEqualsRepr
    \/ EncodeCounter
    \/ AddRepr
    \/ Solve
    \/ ModelVar
    \/ ModelLit
    \/ ModelIndex

Spec == Init /\ [][Next]_vars

----------------------------------------------------------------------------
\* Two encoders that receive the same calls.  The first is <<varmap, backend>>,
\* the second is twin.  Each has a VarMap of its own, whose hash map is seeded
\* per instance; the encoders walk the literals they are given in the order
\* of the iterator and never in the order of a hash map.

Seeds == {"s1", "s2"}

\* The order the literals are walked in, were it the order of a hash map.
iteration_order_hashed(seed, lits) ==
    IF seed = "s1" THEN lits ELSE [i \in DOMAIN lits |-> lits[Len(lits) + 1 - i]]

\* The order in which an encoder whose VarMap has the given seed walks lits:
\* lits.map(|v| varmap.add_var(v)), for v in self.lits, for lits in self.lits.
iteration_order(seed, lits) == lits

\* Constraint c as the encoder with the given seed walks it.
walked(seed, c) ==
    [type |-> c.type, k |-> c.k,
     lits |-> iteration_order(seed, c.lits),
     groups |-> [g \in DOMAIN c.groups |-> iteration_order(seed, c.groups[g])]]

Methods == {"encode", "implies", "equals"}

\* The call of Encoder::add_constraint, add_constraint_implies_repr or
\* add_constraint_equals_repr on encoder e.
run(m, c, e) ==
    CASE m = "encode" -> encode(c, e)
      [] m = "implies" -> encode_constraint_implies_repr(c, None, e)
      [] m = "equals" -> encode_constraint_equals_repr(c, None, e)

TwinEncoder == [vm |-> twin.vm, cl |-> twin.cl]

\* r is what the call did to the first encoder, t what it did to the second.
TwinFinish(m, c, r, t) ==
    /\ varmap' = r.e.vm
    /\ backend' = r.e.cl
    /\ call' = [method |-> m, c |-> c, repr |-> None, ret |-> r.ret]
    /\ pc' = IF r.panic THEN "panicked" ELSE "encoded"
    /\ twin' = [vm |-> t.e.vm, cl |-> t.e.cl, ret |-> t.ret, panic |-> t.panic]
    /\ UNCHANGED <<solver, model, probe>>

\* varmap.new_var() on both encoders
TwinNewVar ==
    /\ pc = "ready"
    /\ Cardinality(AnonIds) < MaxPre
    /\ varmap' = new_var(Encoder).e.vm
    /\ twin' = [twin EXCEPT !.vm = new_var(TwinEncoder).e.vm]
    /\ UNCHANGED <<backend, call, pc, solver, model, probe>>

\* The same add_constraint* call on both encoders.
TwinCall ==
    /\ pc = "ready"
    /\ \E m \in Methods, c \in Constraints, sa \in Seeds, sb \in Seeds :
          TwinFinish(m, c, run(m, walked(sa, c), Encoder),
                           run(m, walked(sb, c), TwinEncoder))

\* add_constraint(r) on both encoders, r being the repr each call returned.
TwinAddRepr ==
    /\ pc = "encoded"
    /\ call.method \in {"implies", "equals"}
    /\ varmap' = VarType_encode(Encoder, Unnamed(call.ret)).e.vm
    /\ backend' = VarType_encode(Encoder, Unnamed(call.ret)).e.cl
    /\ twin' = [twin EXCEPT
                  !.vm = VarType_encode(TwinEncoder, Unnamed(twin.ret)).e.vm,
                  !.cl = VarType_encode(TwinEncoder, Unnamed(twin.ret)).e.cl]
    /\ pc' = "composed"
    /\ UNCHANGED <<call, solver, model, probe>>

NextTwin ==
    \/ TwinNewVar
    \/ TwinCall
    \/ TwinAddRepr

SpecTwin == Init /\ [][NextTwin]_vars

----------------------------------------------------------------------------
\* The pure functions of Lit and VarType, each applied to every literal of the
\* bounded sets Lits and VarTypes.

Applied(op, arg, res) ==
    /\ probe' = [op |-> op, arg |-> arg, res |-> res]
    /\ UNCHANGED <<varmap, backend, call, pc, solver, model, twin>>

\* l.is_pos()
IsPos == probe = NoProbe /\ \E l \in Lits : Applied("is_pos", l, is_pos(l))

\* l.is_neg()
IsNeg == probe = NoProbe /\ \E l \in Lits : Applied("is_neg", l, is_neg(l))

\* l.var()
LitVar == probe = NoProbe /\ \E l \in Lits : Applied("var", l, Lit_var(l))

\* l.unwrap()
LitUnwrap == probe = NoProbe /\ \E l \in Lits : Applied("unwrap", l, Lit_unwrap(l))

\* !l
LitNot == probe = NoProbe /\ \E l \in Lits : Applied("lit_not", l, Lit_not(l))

\* !!l
LitNotNot == probe.op = "lit_not" /\ Applied("lit_not_not", probe.arg, Lit_not(probe.res))

\* !x
VarTypeNot ==
    /\ probe = NoProbe
    /\ \E x \in VarTypes : \E o \in VarType_not(x) : Applied("var_not", x, o)

\* !!x, when !x returned
VarTypeNotNot ==
    /\ probe.op = "var_not" /\ ~probe.res.panic
    /\ \E o \in VarType_not(probe.res.val) : Applied("var_not_not", probe.arg, o)

NextLit ==
    \/ IsPos
    \/ IsNeg
    \/ LitVar
    \/ LitUnwrap
    \/ LitNot
    \/ LitNotNot
    \/ VarTypeNot
    \/ VarTypeNotNot

SpecLit == Init /\ [][NextLit]_vars

----------------------------------------------------------------------------
\* What the claims are about: the input literals of the last call and the
\* satisfying assignments of the emitted clauses projected onto them.

\* The signed id of a named literal in the VarMap (get_var).
get_var(l) == IF l.pos THEN IdOf(varmap, l.var) ELSE -IdOf(varmap, l.var)

Inputs == IF call.c.type = "SameCardinality" THEN Flatten(call.c.groups) ELSE call.c.lits

\* An input assignment says for each input literal whether it is true.
InputAssignments == [DOMAIN Inputs -> BOOLEAN]

\* The assumptions fixing the inputs to assignment a.
Fix(a) == {IF a[i] THEN get_var(Inputs[i]) ELSE -get_var(Inputs[i]) : i \in DOMAIN Inputs}

\* a extends to a satisfying assignment of the backend's clauses.
Satisfiable(a) == solve_with(backend, Fix(a))

\* a extends to a satisfying assignment in which literal r is true.
SatisfiableWith(a, r) == solve_with(backend, Fix(a) \cup {r})

Models == {a \in InputAssignments : Satisfiable(a)}

CountTrue(a, lo, hi) == Cardinality({i \in lo .. hi : a[i]})

----------------------------------------------------------------------------
\* Vocabulary of the claims.

N == Len(Inputs)

RECURSIVE binomial(_, _)
binomial(n, k) ==
    IF k = 0 THEN 1
    ELSE IF k > n THEN 0
    ELSE binomial(n - 1, k - 1) + binomial(n - 1, k)

RECURSIVE SumBinomial(_, _, _)
SumBinomial(n, lo, hi) ==
    IF lo > hi THEN 0 ELSE binomial(n, lo) + SumBinomial(n, lo + 1, hi)

Min(x, y) == IF x < y THEN x ELSE y

Trues(a) == CountTrue(a, 1, N)

\* The call that was made: method m of a constraint of type t, with or without
\* a caller-supplied repr, over at least one input literal, and it returned.
Called(m, t) ==
    /\ pc = "encoded"
    /\ call.method = m
    /\ call.c.type = t

Groups == call.c.groups

\* The number of true literals of group g under input assignment a.
GroupTrues(a, g) ==
    LET first == Sum([j \in 1 .. g - 1 |-> Len(Groups[j])])
    IN CountTrue(a, first + 1, first + Len(Groups[g]))

\* The constraint of the call holds on input assignment a.
Holds(a) ==
    CASE call.c.type = "AtMostK" -> Trues(a) <= call.c.k
      [] call.c.type = "AtleastK" -> Trues(a) >= call.c.k
      [] call.c.type = "ExactlyK" -> Trues(a) = call.c.k
      [] call.c.type = "SameCardinality" ->
            \A g, h \in DOMAIN Groups : GroupTrues(a, g) = GroupTrues(a, h)
      [] OTHER -> FALSE

\* Every group of the call has at least one literal, and there is a group.
GroupsNonEmpty == Groups # <<>> /\ \A g \in DOMAIN Groups : Len(Groups[g]) >= 1

RECURSIVE ProdBinomial(_, _)
ProdBinomial(sizes, i) ==
    IF sizes = <<>> THEN 1 ELSE binomial(Head(sizes), i) * ProdBinomial(Tail(sizes), i)

RECURSIVE SumProdBinomial(_, _, _)
SumProdBinomial(sizes, lo, hi) ==
    IF lo > hi THEN 0
    ELSE ProdBinomial(sizes, lo) + SumProdBinomial(sizes, lo + 1, hi)

GroupSizes == [g \in DOMAIN Groups |-> Len(Groups[g])]

----------------------------------------------------------------------------
\* Reification vocabulary.  r is the signed repr literal.

\* Every input assignment stays satisfiable; where the constraint holds r is
\* true in every satisfying extension; where it fails r is free.
ImpliesRepr(r) ==
    \A a \in InputAssignments :
        /\ Satisfiable(a)
        /\ Holds(a) => ~SatisfiableWith(a, -r)
        /\ ~Holds(a) => SatisfiableWith(a, r) /\ SatisfiableWith(a, -r)

\* Every input assignment stays satisfiable and r is true exactly where the
\* constraint holds.
EqualsRepr(r) ==
    \A a \in InputAssignments :
        /\ Satisfiable(a)
        /\ Holds(a) => ~SatisfiableWith(a, -r)
        /\ ~Holds(a) => ~SatisfiableWith(a, r)

\* The projected models are exactly the input assignments on which the
\* constraint holds.
ExactModels == \A a \in InputAssignments : Satisfiable(a) <=> Holds(a)

----------------------------------------------------------------------------
\* C1: after add_constraint(AtMostK{k, lits}) over n >= 1 distinct named
\* literals and any k >= 0 (k >= n included), the satisfying assignments of the
\* emitted clauses projected onto the inputs are exactly those with at most k
\* true inputs, sum_{i=0..min(k,n)} C(n,i) of them.
C1_AtMostK ==
    (Called("encode", "AtMostK") /\ N >= 1) =>
        /\ ExactModels
        /\ Cardinality(Models) = SumBinomial(N, 0, Min(call.c.k, N))

C1_Witness ==
    /\ Called("encode", "AtMostK")
    /\ N = 3
    /\ call.c.k = 2
    /\ Cardinality(Models) = 7

\* C2: after add_constraint(AtleastK{k, lits}) over n >= 1 distinct named
\* literals and any k >= 1 (k > n included, then unsatisfiable), the projected
\* satisfying assignments are exactly those with at least k true inputs,
\* sum_{i=k..n} C(n,i) of them.
C2_AtleastK ==
    (Called("encode", "AtleastK") /\ N >= 1 /\ call.c.k >= 1) =>
        /\ ExactModels
        /\ Cardinality(Models) = SumBinomial(N, call.c.k, N)

C2_Witness ==
    /\ Called("encode", "AtleastK")
    /\ N = 3
    /\ call.c.k = 2
    /\ Cardinality(Models) = 4

\* C3: after add_constraint(ExactlyK{k, lits}) over n >= 1 distinct named
\* literals and any k >= 0 (k > n included, then unsatisfiable), the projected
\* satisfying assignments are exactly those with exactly k true inputs,
\* C(n,k) of them.
C3_ExactlyK ==
    (Called("encode", "ExactlyK") /\ N >= 1) =>
        /\ ExactModels
        /\ Cardinality(Models) = binomial(N, call.c.k)

C3_Witness ==
    /\ Called("encode", "ExactlyK")
    /\ N = 3
    /\ call.c.k = 2
    /\ Cardinality(Models) = 3

\* C4: after add_constraint(SameCardinality) over m >= 1 non-empty disjoint
\* groups of any sizes >= 1 (size 1 included), the projected satisfying
\* assignments are exactly those in which every group has the same number of
\* true literals, sum_{i=0..min n_j} prod_j C(n_j, i) of them.
C4_SameCardinality ==
    (Called("encode", "SameCardinality") /\ GroupsNonEmpty) =>
        /\ ExactModels
        /\ Cardinality(Models) = SumProdBinomial(GroupSizes, 0, MinLen(Groups))

\* C5: for AtMostK, AtleastK and ExactlyK over n >= 1 inputs and any k >= 0,
\* with r the repr returned by encode_constraint_implies_repr(None, ..): every
\* input assignment stays satisfiable, r is true in every satisfying extension
\* of an assignment on which the constraint holds, and both r and not r extend
\* an assignment on which it fails.
C5_ImpliesRepr ==
    (pc = "encoded" /\ call.method = "implies" /\ call.c.type \in KTypes
        /\ call.repr = None /\ N >= 1) => ImpliesRepr(call.ret)

\* C6: for AtMostK, AtleastK and ExactlyK over n >= 1 inputs and any k >= 0,
\* with r the repr returned by encode_constraint_equals_repr(None, ..): every
\* input assignment stays satisfiable and in every satisfying assignment r is
\* true if and only if the constraint holds on the inputs.
C6_EqualsRepr ==
    (pc = "encoded" /\ call.method = "equals" /\ call.c.type \in KTypes
        /\ call.repr = None /\ N >= 1) => EqualsRepr(call.ret)

C6_Witness ==
    /\ Called("equals", "AtMostK")
    /\ call.repr = None
    /\ N = 3
    /\ call.c.k = 1
    /\ call.ret < 0
    /\ \E a, b \in InputAssignments :
          /\ Holds(a) /\ SatisfiableWith(a, call.ret)
          /\ ~Holds(b) /\ SatisfiableWith(b, -call.ret)

\* C7: for SameCardinality over m >= 1 non-empty disjoint groups of any sizes
\* >= 1, with r = encode_constraint_implies_repr(None, ..): every input
\* assignment stays satisfiable, r is true in every satisfying extension when
\* all groups have the same number of true literals, and r is free otherwise.
C7_SameImpliesRepr ==
    (Called("implies", "SameCardinality") /\ call.repr = None /\ GroupsNonEmpty)
        => ImpliesRepr(call.ret)

\* C8: for SameCardinality over m >= 1 non-empty disjoint groups of any sizes
\* >= 1, with r = encode_constraint_equals_repr(None, ..): every input
\* assignment stays satisfiable and in every satisfying assignment r is true
\* if and only if all groups have the same number of true literals.
C8_SameEqualsRepr ==
    (Called("equals", "SameCardinality") /\ call.repr = None /\ GroupsNonEmpty)
        => EqualsRepr(call.ret)

\* C9: for AtMostK and AtleastK with k >= 1 and a caller-supplied repr Some(p),
\* encode_constraint_implies_repr makes p true in every satisfying assignment
\* in which the constraint holds on the inputs and leaves p free when it fails.
C9_SuppliedImpliesRepr ==
    (pc = "encoded" /\ call.method = "implies"
        /\ call.c.type \in {"AtMostK", "AtleastK"}
        /\ call.repr # None /\ call.c.k >= 1 /\ N >= 1) =>
        \A a \in InputAssignments :
            /\ Holds(a) => ~SatisfiableWith(a, -call.repr)
            /\ ~Holds(a) =>
                  SatisfiableWith(a, call.repr) /\ SatisfiableWith(a, -call.repr)

\* C10: for AtMostK and AtleastK with k >= 1 and a caller-supplied repr Some(p),
\* encode_constraint_equals_repr makes p true if and only if the constraint
\* holds on the inputs, in every satisfying assignment.
C10_SuppliedEqualsRepr ==
    (pc = "encoded" /\ call.method = "equals"
        /\ call.c.type \in {"AtMostK", "AtleastK"}
        /\ call.repr # None /\ call.c.k >= 1 /\ N >= 1) =>
        \A a \in InputAssignments :
            /\ Holds(a) => ~SatisfiableWith(a, -call.repr)
            /\ ~Holds(a) => ~SatisfiableWith(a, call.repr)

----------------------------------------------------------------------------
\* C11: for AtMostK, AtleastK, ExactlyK and SameCardinality, every k and both
\* encode_constraint_implies_repr and encode_constraint_equals_repr: a call
\* with repr = Some(p) that returns, returns exactly p.
C11_ReturnsSuppliedRepr ==
    (pc = "encoded" /\ call.method \in {"implies", "equals"} /\ call.repr # None)
        => call.ret = call.repr

\* An AtleastK counter (k >= 1, so the counter's own literal r exists and
\* differs from p) was reified onto a supplied p and p came back.
C11_Witness ==
    /\ Called("equals", "AtleastK")
    /\ call.c.k = 2 /\ Len(call.c.lits) = 3
    /\ call.repr # None
    /\ call.ret = call.repr

----------------------------------------------------------------------------
\* Vocabulary of the claims about solve() and the Model.

Solved == pc \in {"solved", "looked_up"}

Assignments == model.assignments

\* The entry the Model must hold for id i when the backend's value is b.
EntryOf(i, b) ==
    IF varmap[i] # Anon
    THEN Named([pos |-> b, var |-> varmap[i]])
    ELSE Unnamed(IF b THEN i ELSE -i)

\* C12: after a session of add_constraint / add_constraint_*_repr / new_var
\* calls and a successful solve, the Model holds exactly one entry per
\* allocated id, Named for an id of a user variable and Unnamed for an
\* anonymous id, with the polarity backend.value(id) gave, and never both
\* polarities of a variable (Model::var never reaches unreachable!()).
C12_ModelOneEntryPerId ==
    (Solved /\ model.some) =>
        /\ Assignments = {EntryOf(i, solver.value[i]) : i \in DOMAIN varmap}
        /\ Cardinality(Assignments) = Len(varmap)
        /\ \A i \in DOMAIN varmap : EntryOf(i, ~solver.value[i]) \notin Assignments
        /\ \A v \in V : Model_var(Assignments, v) # Unreachable

\* A solved session with named and anonymous ids and both truth values.
C12_Witness ==
    /\ Solved /\ model.some
    /\ Len(varmap) >= 4
    /\ \E i, j \in DOMAIN varmap :
          /\ varmap[i] # Anon /\ varmap[j] = Anon
          /\ solver.value[i] /\ ~solver.value[j]
          /\ Named(Lit_Pos(varmap[i])) \in Assignments
          /\ Unnamed(-j) \in Assignments

\* C13: Encoder::solve returns None if and only if the backend's solve did not
\* report satisfiable (Unsat or Unknown), and then it never calls
\* backend.value; when the backend reports satisfiable it returns Some(model).
C13_SolveNoneIffNotSat ==
    Solved =>
        /\ ~model.some <=> solver.result \in {"Unsat", "Unknown"}
        /\ model.some <=> solver.result = "Sat"
        /\ ~model.some => solver.queried = <<>>

\* The backend answered Unsat to a session that encoded a constraint and
\* solve returned None.
C13_Witness ==
    /\ Solved /\ solver.result = "Unsat" /\ ~model.some
    /\ backend # <<>> /\ Len(varmap) >= 2
    /\ solver.queried = <<>>

\* User variable v was allocated an id.
NamedAllocated(v) == IdOf(varmap, v) # 0

\* What the backend said about user variable v, as an Option<bool>.
ValueOfVar(v) ==
    IF NamedAllocated(v) THEN OptSome(solver.value[IdOf(varmap, v)]) ELSE OptNone

OptNot(o) == IF o.kind = "Some" THEN OptSome(~o.val) ELSE o

\* C14: Model::var(v) is Some(b), b the assigned value, when v was allocated
\* and None when it was not; Model::lit(Pos v) equals var(v) and
\* Model::lit(Neg v) equals the negation of var(v), None staying None.
C14_ModelVarLit ==
    /\ (pc = "looked_up" /\ probe.op = "var") => probe.res = ValueOfVar(probe.arg)
    /\ (pc = "looked_up" /\ probe.op = "lit") =>
          /\ probe.arg.pos => probe.res = Model_var(Assignments, probe.arg.var)
          /\ probe.arg.pos => probe.res = ValueOfVar(probe.arg.var)
          /\ ~probe.arg.pos => probe.res = OptNot(Model_var(Assignments, probe.arg.var))
          /\ ~probe.arg.pos => probe.res = OptNot(ValueOfVar(probe.arg.var))

\* Model::lit was asked for Neg(v) of an allocated v that is true.
C14_Witness ==
    /\ pc = "looked_up" /\ probe.op = "lit"
    /\ ~probe.arg.pos
    /\ NamedAllocated(probe.arg.var)
    /\ solver.value[IdOf(varmap, probe.arg.var)]
    /\ probe.res = OptSome(FALSE)

\* The variable of literal x was allocated: a user variable that has an id, or
\* the anonymous variable of an id that new_var handed out.
Allocated(x) ==
    IF x.arm = "Named" THEN NamedAllocated(x.lit.var)
    ELSE \E i \in DOMAIN varmap : varmap[i] = Anon /\ (x.id = i \/ x.id = -i)

\* The negation of literal x.
Negated(x) == IF x.arm = "Named" THEN Named(Lit_not(x.lit)) ELSE Unnamed(-x.id)

----------------------------------------------------------------------------
\* C16: Lit::is_neg(l) is true if and only if l is the Neg variant, so that for
\* every literal exactly one of is_pos(l), is_neg(l) is true.
C16_IsNeg ==
    probe.op = "is_neg" =>
        /\ probe.res <=> probe.arg = Lit_Neg(Lit_var(probe.arg))
        /\ probe.res # is_pos(probe.arg)

\* C17: negation is an involution that only flips the polarity: for a Lit l,
\* !!l = l, !l # l and (!l).var() = l.var(); for a VarType x, Named or Unnamed
\* with any nonzero integer, !x and !!x are defined, !!x = x and the arm
\* (Named or Unnamed) is kept.
C17_NotInvolution ==
    /\ probe.op = "lit_not" =>
          probe.res # probe.arg /\ Lit_var(probe.res) = Lit_var(probe.arg)
    /\ probe.op = "lit_not_not" => probe.res = probe.arg
    /\ probe.op = "var_not" =>
          ~probe.res.panic /\ probe.res.val.arm = probe.arg.arm
    /\ probe.op = "var_not_not" =>
          ~probe.res.panic /\ probe.res.val = probe.arg

----------------------------------------------------------------------------
\* C18: reification composes.  After r = add_constraint_equals_repr(AtleastK
\* {k, lits}) over n >= 1 named inputs with 1 <= k <= n, add_constraint(r)
\* leaves exactly the input assignments with at least k true inputs, and
\* add_constraint(!r) exactly those with fewer than k.
C18_ReificationComposes ==
    (pc = "composed" /\ call.method = "equals" /\ call.c.type = "AtleastK"
        /\ N >= 1 /\ call.c.k >= 1 /\ call.c.k <= N) =>
        /\ call.unit = call.ret => Models = {a \in InputAssignments : Trues(a) >= call.c.k}
        /\ call.unit = -call.ret => Models = {a \in InputAssignments : Trues(a) < call.c.k}

\* "At least 2 of 3" was reified and its repr denied: the four assignments
\* with fewer than two true inputs are left.
C18_Witness ==
    /\ pc = "composed" /\ call.method = "equals" /\ call.c.type = "AtleastK"
    /\ N = 3 /\ call.c.k = 2
    /\ call.unit = -call.ret
    /\ Cardinality(Models) = 4

----------------------------------------------------------------------------
----------------------------------------------------------------------------
\* A call was made and it aborted.
Aborted == call.method # "none" /\ pc = "panicked"

\* C20: precondition violations abort instead of returning an encoding.
\* encode_cardinality_constraint panics when k = 0, when lits is empty, or
\* when a supplied out row is shorter than k; so AtMostK, AtleastK and
\* ExactlyK with k >= 1 over an empty literal list, and a SameCardinality
\* that contains an empty group, never return from encode or from
\* encode_constraint_implies_repr / encode_constraint_equals_repr.
C20_PreconditionsAbort ==
    /\ (call.method = "counter"
          /\ (\/ call.c.k = 0
              \/ call.c.lits = <<>>
              \/ (call.out.some /\ Len(call.out.row) < call.c.k)))
          => Aborted
    /\ (call.method \in Methods /\ call.c.type \in KTypes
          /\ call.c.k >= 1 /\ call.c.lits = <<>>)
          => Aborted
    /\ (call.method \in Methods /\ call.c.type = "SameCardinality"
          /\ \E g \in DOMAIN call.c.groups : call.c.groups[g] = <<>>)
          => Aborted

\* A SameCardinality whose second group is empty was reified: the first
\* group was encoded, then the call aborted.
C20_Witness ==
    /\ Aborted
    /\ call.method = "implies" /\ call.c.type = "SameCardinality"
    /\ Len(call.c.groups) = 2
    /\ Len(call.c.groups[1]) = 2 /\ call.c.groups[2] = <<>>
    /\ backend # <<>>

----------------------------------------------------------------------------
\* Vocabulary of the claims about what one call emits and allocates.  A call
\* is the step from "ready" to "encoded"; the unprimed variables are the
\* encoder before the call and the primed ones the encoder after it.

\* The step is a returning call of method m on a constraint of type t.
Returns(m, t) ==
    /\ pc = "ready" /\ pc' = "encoded"
    /\ call'.method = m
    /\ call'.c.type = t

\* The clauses the call appended to the backend.
Emitted == SubSeq(backend', Len(backend) + 1, Len(backend'))

\* The call kept every clause and every id that was there before it.
Extends ==
    /\ Len(backend') >= Len(backend)
    /\ SubSeq(backend', 1, Len(backend)) = backend
    /\ Len(varmap') >= Len(varmap)
    /\ SubSeq(varmap', 1, Len(varmap)) = varmap

\* The anonymous ids the call allocated.
NewAnonIds == AnonIds' \ AnonIds

\* One unit clause {not l} per input literal, in input order.
NegUnits == [i \in DOMAIN Inputs |-> <<-get_var(Inputs[i])>>]

\* The input assignment in which every input literal is false.
AllFalse == [i \in DOMAIN Inputs |-> FALSE]

\* The signed ids of the input literals, in input order.
InputIds == [i \in DOMAIN Inputs |-> get_var(Inputs[i])]

C21_ZeroEncodeStep ==
    ((Returns("encode", "AtMostK") \/ Returns("encode", "ExactlyK")) /\ call'.c.k = 0) =>
        /\ Extends
        /\ Emitted = NegUnits'
        /\ NewAnonIds = {}

\* After such a call the only satisfiable input assignment is all-false.
C21_OnlyAllFalse ==
    ((Called("encode", "AtMostK") \/ Called("encode", "ExactlyK")) /\ call.c.k = 0) =>
        Models = {AllFalse}

\* C21: with k = 0, AtMostK::encode and ExactlyK::encode emit exactly one
\* unit clause {not l} per input literal, in input order, and nothing else,
\* and allocate no anonymous variable; the only satisfying input assignment
\* is the one in which every input is false.
C21_ZeroEncode == [][C21_ZeroEncodeStep]_vars /\ []C21_OnlyAllFalse

\* ExactlyK{k = 0} was encoded over three literals, the second one negated,
\* after one anonymous variable had been allocated.
C21_Witness ==
    /\ Called("encode", "ExactlyK")
    /\ call.c.k = 0
    /\ N = 3
    /\ ~call.c.lits[2].pos
    /\ varmap = <<Anon, 1, 2, 3>>
    /\ backend = << <<-2>>, <<3>>, <<-4>> >>
    /\ Cardinality(Models) = 1

C22_ZeroAtleastStep ==
    (Returns("encode", "AtleastK") /\ call'.c.k = 0) =>
        /\ backend' = backend
        /\ varmap' = varmap

\* C22: AtleastK::encode with k = 0 is a no-op: it emits no clause and leaves
\* the VarMap unchanged (no named or anonymous id is allocated, the input
\* literals are not registered), so the clauses of the backend and their
\* satisfying assignments are what they were.
C22_ZeroAtleastNoOp == [][C22_ZeroAtleastStep]_vars

\* AtleastK{k = 0} was encoded over three literals after one anonymous
\* variable had been allocated: the VarMap still holds that variable alone.
C22_Witness ==
    /\ Called("encode", "AtleastK")
    /\ call.c.k = 0
    /\ N = 3
    /\ varmap = <<Anon>>
    /\ backend = <<>>

----------------------------------------------------------------------------
\* Vocabulary of the claims about the counter.

\* encode_cardinality_constraint was called and returned.
CounterCalled == pc = "encoded" /\ call.method = "counter"

\* Literal x is true in every satisfying extension of input assignment a
\* exactly when cond holds, and false in every one otherwise.
Forced(a, x, cond) ==
    /\ cond => ~SatisfiableWith(a, -x)
    /\ ~cond => ~SatisfiableWith(a, x)

\* row[j] is true iff at least j of the inputs are true (j counted from 1),
\* for the first k entries of row, on every input assignment.
CountsInputs(row, k) ==
    \A a \in InputAssignments :
        /\ Satisfiable(a)
        /\ \A j \in 1 .. k : Forced(a, row[j], Trues(a) >= j)

\* C23: encode_cardinality_constraint called with a supplied out row over
\* any number >= 1 of literals (a single literal included) returns the
\* supplied row and ties it to the inputs: under direction Both, out[j] is
\* true iff at least j + 1 of the literals are true, for 0 <= j < k.
C23_SuppliedRow ==
    (CounterCalled /\ call.out.some /\ N >= 1) =>
        /\ call.row = call.out.row
        /\ call.dir = Both => CountsInputs(call.out.row, call.c.k)

\* What does hold: the same statement over two or more literals.
C23_TwoOrMore ==
    (CounterCalled /\ call.out.some /\ N >= 2) =>
        /\ call.row = call.out.row
        /\ call.dir = Both => CountsInputs(call.out.row, call.c.k)

\* The ids allocated before the first input literal was registered.
PreLen == IdOf(varmap, Inputs[1].var) - 1

\* The id of s[i][j] (i, j counted from 1) in a counter built without a
\* supplied row: the first row is allocated after the inputs, every later
\* row is followed by its k - 1 AND-auxiliaries.
S(i, j) ==
    IF i = 1 THEN PreLen + N + j
    ELSE PreLen + N + call.c.k + (i - 2) * (2 * call.c.k - 1) + j

\* The ids the counter allocated: rows and AND-auxiliaries.
AuxIds == (PreLen + N + 1) .. Len(varmap)

\* The ids of the rows and of the AND-auxiliaries of the tableau.
RowIds == {S(i, j) : <<i, j>> \in (1 .. N) \X (1 .. call.c.k)}
AndAuxIds == {S(i, call.c.k) + j - 1 : <<i, j>> \in (2 .. N) \X (2 .. call.c.k)}

\* Unit propagation on the clauses cs: the literals it derives, added to ls,
\* the clauses that are left, and whether it met an empty clause.
RECURSIVE Propagated(_, _)
Propagated(cs, ls) ==
    IF {} \in cs THEN [conflict |-> TRUE, lits |-> ls, rest |-> cs]
    ELSE IF \E c \in cs : Cardinality(c) = 1
    THEN LET l == CHOOSE x \in UNION {c \in cs : Cardinality(c) = 1} : TRUE
         IN Propagated(Assign(cs, l), ls \cup {l})
    ELSE [conflict |-> FALSE, lits |-> ls, rest |-> cs]

\* What follows from the backend's clauses once the inputs are fixed to a.
Closure(a) == Propagated(ClauseSet(backend) \cup {{x} : x \in Fix(a)}, {})

\* Id x with the value b, as a literal.
Valued(x, b) == IF b THEN x ELSE -x

\* p, the closure of input assignment a, satisfies every clause and gives
\* every cell of the tableau and every AND-auxiliary its value: s[i][j] is
\* true iff at least j of v_1..v_i are (j counted from 1), the auxiliary of
\* s[i][j] iff v_i and s[i-1][j-1] are.
TableauForced(a, p) ==
    /\ ~p.conflict
    /\ p.rest = {}
    /\ \A i \in 1 .. N, j \in 1 .. call.c.k :
          Valued(S(i, j), CountTrue(a, 1, i) >= j) \in p.lits
    /\ \A i \in 2 .. N, j \in 2 .. call.c.k :
          Valued(S(i, call.c.k) + j - 1, a[i] /\ CountTrue(a, 1, i - 1) >= j - 1)
              \in p.lits

\* C24: counter tableau invariant.  For encode_cardinality_constraint with
\* direction Both, no supplied row, n >= 1 inputs and k >= 1, every input
\* assignment extends to exactly one satisfying assignment of the auxiliary
\* variables: each id the call allocated is a row cell or an AND-auxiliary,
\* and the clauses force its value once the inputs are fixed, s[i][j] being
\* true iff at least j + 1 of v_1..v_i are true (so s[1][j] is false for
\* j > 0 and every row is monotone).  The returned row is the last one.
C24_Tableau ==
    (CounterCalled /\ call.dir = Both /\ ~call.out.some /\ N >= 1) =>
        /\ call.row = [j \in 1 .. call.c.k |-> S(N, j)]
        /\ AuxIds = RowIds \cup AndAuxIds
        /\ \A a \in InputAssignments :
              /\ TableauForced(a, Closure(a))
              /\ Satisfiable(a)
              /\ \A j \in 2 .. call.c.k :
                    ~solve_with(backend, Fix(a) \cup {call.row[j], -call.row[j - 1]})

\* A counter of three columns was built over three literals in direction
\* Both: three rows, two AND-auxiliaries after each of the last two.
C24_Witness ==
    /\ CounterCalled /\ call.dir = Both /\ ~call.out.some
    /\ N = 3 /\ call.c.k = 3
    /\ PreLen = 1
    /\ call.row = <<13, 14, 15>>
    /\ Len(varmap) = 17

\* The last row is the supplied one: the row loop ran and out was given.
LastSupplied(i) == call.out.some /\ i = N /\ N >= 2

\* The id of s[i][j] in any call of the counter.
Row(i, j) == IF LastSupplied(i) THEN call.out.row[j] ELSE S(i, j)

\* The id of the AND-auxiliary of row i >= 2 and column j >= 2: allocated
\* after the row's own ids, which are not allocated when the row is supplied.
AndAux(i, j) ==
    PreLen + N + call.c.k + (i - 2) * (2 * call.c.k - 1)
    + (IF LastSupplied(i) THEN 0 ELSE call.c.k) + (j - 1)

\* The clauses of the backend in which id x occurs.
ClausesOn(x) == {c \in Range(backend) : x \in Range(c) \/ -x \in Range(c)}

\* The cells of the tableau that have an AND-auxiliary.
AuxCells == (2 .. N) \X (2 .. call.c.k)

\* The three clauses of a <-> (v_i and s[i-1][j-1]).
AndForward(i, j) == <<-get_var(Inputs[i]), -Row(i - 1, j - 1), AndAux(i, j)>>
AndBackward(i, j) ==
    {<<-AndAux(i, j), get_var(Inputs[i])>>, <<-AndAux(i, j), Row(i - 1, j - 1)>>}

\* The clauses of the OR gate of cell (i, j) in which the auxiliary occurs.
OrForward(i, j) == <<-AndAux(i, j), Row(i, j)>>
OrBackward(i, j) == <<-Row(i, j), AndAux(i, j), Row(i - 1, j)>>

\* C25 as stated: for every direction passed by the caller the AND-auxiliary
\* between rows is defined in both directions, the clauses
\* {not v_i, not s[i-1][j-1], a}, {not a, v_i} and {not a, s[i-1][j-1]} all
\* being emitted.
C25_AndAuxBothWays ==
    (CounterCalled /\ N >= 1) =>
        \A cell \in AuxCells :
            /\ varmap[AndAux(cell[1], cell[2])] = Anon
            /\ AndForward(cell[1], cell[2]) \in Range(backend)
            /\ AndBackward(cell[1], cell[2]) \subseteq Range(backend)

\* C25 amended: the AND-auxiliary between rows is a freshly allocated
\* variable used by its own two gates alone, and its definition follows the
\* caller's direction like every other gate: InToOut emits
\* {not v_i, not s[i-1][j-1], a} only, OutToIn emits {not a, v_i} and
\* {not a, s[i-1][j-1]} only, Both emits all three.
C25_AndAuxFollowsDir ==
    (CounterCalled /\ N >= 1) =>
        \A cell \in AuxCells :
            /\ AndAux(cell[1], cell[2]) \in AuxIds
            /\ varmap[AndAux(cell[1], cell[2])] = Anon
            /\ ClausesOn(AndAux(cell[1], cell[2])) =
                  (IF in_to_out(call.dir)
                   THEN {AndForward(cell[1], cell[2]), OrForward(cell[1], cell[2])}
                   ELSE {})
                  \cup
                  (IF out_to_in(call.dir)
                   THEN AndBackward(cell[1], cell[2]) \cup {OrBackward(cell[1], cell[2])}
                   ELSE {})

\* A counter of two columns over three literals was built InToOut with a
\* fresh row: the auxiliary of the last row has its forward clause and
\* neither backward clause.
C25_Witness ==
    /\ CounterCalled /\ call.dir = InToOut
    /\ N = 3 /\ call.c.k = 2
    /\ AndForward(3, 2) \in Range(backend)
    /\ AndBackward(3, 2) \cap Range(backend) = {}

----------------------------------------------------------------------------
\* The direction of the counter.  The first encoder <<varmap, backend>> gets
\* the call of AtMostK::encode or AtleastK::encode as the code makes it, the
\* second encoder twin gets the same constraint with its counter built in
\* direction Both, which emits every clause of every gate.

\* Constraint c encoded on e with the counter in direction Both.
built_both(c, e) ==
    IF c.k = 0 THEN encode(c, e)
    ELSE IF c.type = "AtMostK"
    THEN AtMostK_deny(encode_cardinality_constraint(e, c.lits, c.k + 1, Both, NoOut))
    ELSE AtleastK_assert(encode_cardinality_constraint(e, c.lits, c.k, Both, NoOut))

\* encoder.add_constraint(c) next to the same constraint built with Both.
DirEncode ==
    /\ pc = "ready"
    /\ \E c \in Constraints :
          /\ c.type \in {"AtMostK", "AtleastK"}
          /\ TwinFinish("encode", c, encode(c, Encoder), built_both(c, TwinEncoder))

NextDir ==
    \/ TwinNewVar
    \/ DirEncode

SpecDir == Init /\ [][NextDir]_vars

\* C26: the direction optimisation is sound.  For n >= 1 and k >= 1 the
\* plain AtMostK encoding (counter InToOut) and the plain AtleastK encoding
\* (counter OutToIn) have exactly the satisfying input assignments of the
\* same constraint built with the counter in direction Both, and emit a
\* subset of its clauses.
C26_DirectionSound ==
    (pc = "encoded" /\ call.c.type \in {"AtMostK", "AtleastK"}
        /\ call.c.k >= 1 /\ N >= 1) =>
        /\ Range(backend) \subseteq Range(twin.cl)
        /\ varmap = twin.vm
        /\ \A a \in InputAssignments :
              Satisfiable(a) <=> solve_with(twin.cl, Fix(a))

\* AtleastK{k = 2} over three literals: the one-sided encoding has fewer
\* clauses than the one built with Both, and both admit the four input
\* assignments with two or three true literals.
C26_Witness ==
    /\ pc = "encoded" /\ call.c.type = "AtleastK"
    /\ call.c.k = 2 /\ N = 3
    /\ Len(backend) < Len(twin.cl)
    /\ Cardinality(Models) = 4
    /\ Cardinality({a \in InputAssignments : solve_with(twin.cl, Fix(a))}) = 4

----------------------------------------------------------------------------
\* The step is a returning call of implies_repr or equals_repr on a
\* constraint of type t with k = 0.
ZeroReified(t) ==
    /\ Returns("implies", t) \/ Returns("equals", t)
    /\ call'.c.k = 0

\* The clause (l_1 or ... or l_n or r), r being the returned repr.
AnyInputOrRepr == InputIds \o <<call.ret>>

\* One clause {not l_i, not r} per input literal, in input order.
NotBoth == [i \in DOMAIN Inputs |-> <<-get_var(Inputs[i]), -call.ret>>]

\* The returned repr is true in every satisfying extension of the all-false
\* input assignment.
ReprTrueOnAllFalse == ~SatisfiableWith(AllFalse, -call.ret)

\* The returned repr is false in every satisfying extension of an input
\* assignment with a true input.
ReprFalseOnAnyTrue ==
    \A a \in InputAssignments : Trues(a) >= 1 => ~SatisfiableWith(a, call.ret)

C27_ZeroReifiedStep ==
    (ZeroReified("AtMostK") \/ ZeroReified("ExactlyK")) =>
        /\ Extends
        /\ Emitted = << AnyInputOrRepr' >>
                     \o (IF call'.method = "equals" THEN NotBoth' ELSE <<>>)
        /\ NewAnonIds = (IF call'.repr = None THEN {call'.ret} ELSE {})
        /\ call'.repr # None => call'.ret = call'.repr

\* After such a call the returned repr is forced by the inputs.
C27_ReprForced ==
    (pc = "encoded" /\ call.method \in {"implies", "equals"}
        /\ call.c.type \in {"AtMostK", "ExactlyK"} /\ call.c.k = 0) =>
        /\ ReprTrueOnAllFalse
        /\ call.method = "equals" => ReprFalseOnAnyTrue

\* C27: the k = 0 reification paths of AtMostK and ExactlyK build no
\* counter.  implies_repr emits exactly the one clause (l_1 or ... or l_n or
\* r); equals_repr emits that clause and then one clause {not l_i, not r}
\* per input; the only anonymous variable allocated is r, and none when r is
\* supplied.  r is forced true when all inputs are false, and under
\* equals_repr forced false when any input is true.
C27_ZeroReified == [][C27_ZeroReifiedStep]_vars /\ []C27_ReprForced

\* AtMostK{k = 0} over three positive literals was reified with equals_repr
\* and no supplied repr after one anonymous variable had been allocated:
\* r = 2 was allocated before the literals were registered.
C27_Witness ==
    /\ Called("equals", "AtMostK")
    /\ call.c.k = 0 /\ N = 3
    /\ call.repr = None /\ call.ret = 2
    /\ varmap = <<Anon, Anon, 1, 2, 3>>
    /\ backend = << <<3, 4, 5, 2>>, <<-3, -2>>, <<-4, -2>>, <<-5, -2>> >>

----------------------------------------------------------------------------
\* The step is a returning call of method m on a SameCardinality that has no
\* group.
NoGroups(m) == Returns(m, "SameCardinality") /\ call'.c.groups = <<>>

C28_NoGroupsStep ==
    /\ NoGroups("encode") => (backend' = backend /\ varmap' = varmap)
    /\ (NoGroups("implies") \/ NoGroups("equals")) =>
          /\ Extends
          /\ Emitted = << <<call'.ret>> >>
          /\ NewAnonIds = (IF call'.repr = None THEN {call'.ret} ELSE {})
          /\ Len(varmap') = Len(varmap) + Cardinality(NewAnonIds)
          /\ call'.repr # None => call'.ret = call'.repr

\* After the reification of a SameCardinality without groups the returned
\* repr is true in every model, and there is a model.
C28_ReprPinned ==
    (pc = "encoded" /\ call.method \in {"implies", "equals"}
        /\ call.c.type = "SameCardinality" /\ call.c.groups = <<>>) =>
        /\ solve_with(backend, {})
        /\ ~solve_with(backend, {-call.ret})

\* C28: SameCardinality with an empty group list.  encode emits no clause
\* and allocates no variable; encode_constraint_implies_repr and
\* encode_constraint_equals_repr allocate the repr (or take the supplied
\* one), emit exactly the unit clause {repr} and return it, so repr is true
\* in every model.
C28_NoGroups == [][C28_NoGroupsStep]_vars /\ []C28_ReprPinned

\* A SameCardinality without groups was reified with implies_repr and no
\* supplied repr after one anonymous variable had been allocated.
C28_Witness ==
    /\ Called("implies", "SameCardinality")
    /\ call.c.groups = <<>>
    /\ call.repr = None /\ call.ret = 2
    /\ varmap = <<Anon, Anon>>
    /\ backend = << <<2>> >>

----------------------------------------------------------------------------
\* Model enumeration: retry_until_unsat on the encoder of a session.  probe
\* holds the locals of the loop: counter, the named assignments handed to
\* pred, and the clauses the loop added to the backend.  Those clauses are
\* held as a set of sets of literals: the model is a hash set, so their
\* literals come in no fixed order, and the backend's answer does not depend
\* on the order in which clauses were added.

\* Model::vars: the literals of the user variables.
Model_vars(m) == {x.lit : x \in {y \in m : y.arm = "Named"}}

\* The blocking clause with the anonymous ids negated as well.
blocking_clause_all(m) ==
    {get_var(Lit_not(l)) : l \in Model_vars(m)}
    \cup {-x.id : x \in {y \in m : y.arm = "Unnamed"}}

\* model.vars().map(|l| varmap.get_var(!l).unwrap())
blocking_clause(m) == {get_var(Lit_not(l)) : l \in Model_vars(m)}

\* Assignment a makes the clause c true, c being a set of literals.
SetClauseTrue(a, c) == \E x \in c : IF x > 0 THEN a[x] ELSE ~a[-x]

\* The satisfying assignments of the backend once the clauses in blocked
\* were added to it.
sat_after(cl, blocked, n) ==
    {a \in SatAssignments(cl, n) : \A c \in blocked : SetClauseTrue(a, c)}

\* A backend that answers solve correctly: Sat with the values of one of the
\* satisfying assignments sat, Unsat when there is none.
correct_outcomes(sat) ==
    IF sat = {} THEN {[result |-> "Unsat", value |-> <<>>]}
    ELSE {[result |-> "Sat", value |-> a] : a \in sat}

\* The user variables allocated.
NamedIds == {i \in DOMAIN varmap : varmap[i] # Anon}

\* let mut counter = 0;
RetryStart ==
    /\ pc \in {"ready", "encoded"}
    /\ Len(varmap) <= MaxSolve
    /\ Cardinality(NamedIds) <= MaxEnum
    /\ probe' = [op |-> "retry_until_unsat", counter |-> 0,
                 handed |-> {}, blocked |-> {}]
    /\ pc' = "retrying"
    /\ UNCHANGED <<varmap, backend, call, solver, model, twin>>

\* The loop body on the Model with assignments m: pred(&model), the
\* blocking clause, counter += 1.
retry_body(p, m) ==
    [op |-> p.op, counter |-> p.counter + 1,
     handed |-> p.handed \cup {Model_vars(m)},
     blocked |-> p.blocked \cup {blocking_clause(m)}]

\* while let Some(model) = encoder.solve() { ... }: one iteration.  The model
\* is local to the iteration.
RetryIterate ==
    /\ pc = "retrying"
    /\ \E o \in correct_outcomes(sat_after(backend, probe.blocked, Len(varmap))) :
          /\ solve_result(o)
          /\ probe' = retry_body(probe, Encoder_solve(varmap, o).model.assignments)
    /\ UNCHANGED <<varmap, backend, call, pc, solver, model, twin>>

\* encoder.solve() returned None: the loop ends and counter is returned.
RetryReturn ==
    /\ pc = "retrying"
    /\ \E o \in correct_outcomes(sat_after(backend, probe.blocked, Len(varmap))) :
          ~solve_result(o)
    /\ pc' = "returned"
    /\ UNCHANGED <<varmap, backend, call, solver, model, twin, probe>>

NextEnum ==
    \/ NewVar
    \/ AddConstraint
    \/ AddConstraintImpliesRepr
    \/ AddConstraintEqualsRepr
    \/ RetryStart
    \/ RetryIterate
    \/ RetryReturn

SpecEnum == Init /\ [][NextEnum]_vars

\* The named assignment of the model built from the satisfying assignment a.
Projection(a) ==
    Model_vars(Encoder_solve(varmap, [result |-> "Sat", value |-> a]).model.assignments)

\* The distinct projections of the satisfying assignments of the clauses the
\* loop started with, and of those the loop has not blocked yet.
Projections == {Projection(a) : a \in SatAssignments(backend, Len(varmap))}
Remaining == {Projection(a) : a \in sat_after(backend, probe.blocked, Len(varmap))}

Retrying == pc \in {"retrying", "returned"}

\* C29: model enumeration with retry_until_unsat, the backend answering
\* solve correctly and n named variables being allocated.  The loop ends
\* after at most 2^n iterations: it can always take a step, and every
\* iteration removes one of the projections that are left.  No named
\* assignment is handed to pred twice, no anonymous variable is in a blocking
\* clause, and the counter returned is the number of distinct projections of
\* the satisfying assignments onto the named variables.
C29_Enumeration ==
    Retrying =>
        /\ probe.counter <= 2 ^ Cardinality(NamedIds)
        /\ probe.counter = Cardinality(probe.handed)
        /\ probe.handed \subseteq Projections
        /\ probe.counter + Cardinality(Remaining) = Cardinality(Projections)
        /\ \A c \in probe.blocked : \A x \in c : x \in NamedIds \/ -x \in NamedIds
        /\ pc = "retrying" => ENABLED (RetryIterate \/ RetryReturn)
        /\ pc = "returned" => probe.counter = Cardinality(Projections)

\* AtMostK{k = 0} over two literals was reified with implies_repr, which
\* leaves the repr free where an input is true: four satisfying assignments
\* differ in the repr alone, and the loop returned 4, the number of
\* projections, not 7, the number of satisfying assignments.
C29_Witness ==
    /\ pc = "returned"
    /\ call.method = "implies" /\ call.c.type = "AtMostK" /\ call.c.k = 0
    /\ Cardinality(NamedIds) = 2
    /\ Cardinality(SatAssignments(backend, Len(varmap))) = 7
    /\ probe.counter = 4

----------------------------------------------------------------------------
\* A constraint was reified through Encoder::add_constraint_implies_repr or
\* Encoder::add_constraint_equals_repr and the call returned
\* VarType::Unnamed(call.ret).
Reified ==
    /\ call.method \in {"implies", "equals"}
    /\ call.repr = None
    /\ pc # "panicked"

\* The returned literal and its negation, as VarType values.
ReturnedLits ==
    {Unnamed(call.ret)} \cup {n.val : n \in VarType_not(Unnamed(call.ret))}

\* C30: for every cardinality constraint (AtMostK, AtleastK, ExactlyK,
\* SameCardinality, any k) reified through add_constraint_implies_repr or
\* add_constraint_equals_repr, the returned VarType::Unnamed(r) has r # 0 and
\* |r| is an anonymous id allocated in the VarMap, never the id of a user
\* variable; r is negative for AtMostK with k >= 1.  So after a later
\* successful solve, negating the returned literal does not overflow (the
\* ids being ones an i32 holds) and indexing the model with the literal or
\* its negation does not panic.
C30_ReturnedRepr ==
    Reified =>
        /\ call.ret # 0
        /\ (call.ret \in AnonIds \/ -call.ret \in AnonIds)
        /\ (call.c.type = "AtMostK" /\ call.c.k >= 1) => call.ret < 0
        /\ Len(varmap) <= IntMax => \A n \in VarType_not(Unnamed(call.ret)) : ~n.panic
        /\ (pc = "solved" /\ model.some) =>
              \A x \in ReturnedLits :
                  \A o \in Model_index(model.assignments, x) : ~o.panic
        /\ (pc = "looked_up" /\ probe.op = "index" /\ probe.arg \in ReturnedLits) =>
              ~probe.res.panic

\* AtMostK{k = 1} over one literal was reified with implies_repr, which
\* returned the negative literal of the last column of its counter; after a
\* successful solve the model was indexed with its negation.
C30_Witness ==
    /\ Reified
    /\ call.method = "implies" /\ call.c.type = "AtMostK" /\ call.c.k = 1
    /\ call.ret = -3
    /\ pc = "looked_up" /\ probe.op = "index"
    /\ probe.arg = Unnamed(3)
    /\ ~probe.res.panic

====
